---- MODULE Spec2Model ----
(***************************************************************************)
(* URL shortener: the URLUseCase (internal/usecase/usecase.go) over the    *)
(* PostgreSQL URLRepository (internal/adapter/repository/postgres) and the *)
(* urls table.  Concurrent callers invoke the five use-case operations;    *)
(* every repository method runs one SQL statement, which the storage       *)
(* engine executes atomically.                                             *)
(***************************************************************************)
EXTENDS Integers, Sequences, FiniteSets, TLC

(* ------------------------------- bounds -------------------------------- *)

\* number of concurrent callers (request goroutines)
NProcs == 2
\* number of distinct strings of one length the generator is seen to produce
CodesPerLen == 2
\* total number of use-case invocations in one behaviour of the service
MaxCalls == 2
\* the same for a service that starts on an empty table
MaxCallsRun == 3
\* largest number of affected rows a driver reports to Remove
MaxAffected == 2
\* total number of ShortenURL invocations in one behaviour of the use case alone
MaxCallsUseCase == 2
\* total number of Save calls these invocations make
MaxSaves == 5
\* largest retry budget / code length passed to WithMaxRetries / WithShortCodeLength
MaxRetriesOpt == 1
MaxLengthOpt == 0

Procs == 1..NProcs
URLs == {"https://example.com", "https://new-example.com"}

(* ------------------------------- errors -------------------------------- *)
\* A Go error value is its Unwrap chain, outermost layer first; nil is <<>>.
\* A layer is the dynamic type of the error value and its text / SQLSTATE.

NoErr == <<>>

errorsNew(text) == [type |-> "errors.errorString", code |-> text]

ErrShortCodeExists == errorsNew("short code exists")
ErrURLNotFound == errorsNew("url not found")
ErrMaxRetriesExceeded == errorsNew("maximum retries exceeded for generating short code")
sqlErrNoRows == errorsNew("sql: no rows in result set")
ErrBadConn == errorsNew("driver: bad connection")
ErrNegativeLength == errorsNew("negative id length")
errUnknown == errorsNew("unknown error")
errAffectedRows == errorsNew("affected rows error")
contextCanceled == errorsNew("context canceled")

\* fmt.Errorf("<text>: %w", err)
Wrapf(text, err) == <<[type |-> "fmt.wrapError", code |-> text]>> \o err

\* errors.Is(err, target): some layer of the chain is the target
errorsIs(err, target) == \E k \in 1..Len(err) : err[k] = target

\* the innermost error of a chain
NoCause == [type |-> "nil", code |-> ""]
Cause(err) == IF err = NoErr THEN NoCause ELSE err[Len(err)]

uniqueViolationErrCode == "23505"

\* The error the registered database/sql driver ("pgx", pgx/v5/stdlib) hands
\* back for a server error: a *pgconn.PgError of package pgx/v5/pgconn.
DriverPgError(sqlstate) == <<[type |-> "github.com/jackc/pgx/v5/pgconn.PgError", code |-> sqlstate]>>

\* pgErr, ok := err.(*pgconn.PgError) with pgconn = github.com/jackc/pgconn:
\* a type assertion on err itself (no unwrapping), then the SQLSTATE test.
isUniqueViolationError(err) ==
    /\ Len(err) > 0
    /\ err[1].type = "github.com/jackc/pgconn.PgError"
    /\ err[1].code = uniqueViolationErrCode

(* ---------------------------- short codes ------------------------------ *)
\* A short code is a string; the model keeps its length and which of the
\* strings of that length it is.  There is one string of length 0.

NoCode == [len |-> -1, n |-> 0]
\* len(shortCode)
StrLen(s) == s.len
NumStrings(l) == IF l = 0 THEN 1 ELSE CodesPerLen
Strings(l) == IF l < 0 THEN {} ELSE {[len |-> l, n |-> k] : k \in 1..NumStrings(l)}

\* gonanoid.New(l): an error for a negative length, else any string of l characters
gonanoidNew(l) ==
    IF l < 0 THEN {[id |-> NoCode, err |-> <<ErrNegativeLength>>]}
    ELSE {[id |-> s, err |-> NoErr] : s \in Strings(l)}

(* ------------------------------ use case ------------------------------- *)

defaultURLUseCase == [maxRetries |-> 5, shortCodeLength |-> 7]

WithMaxRetries(n, u) == [u EXCEPT !.maxRetries = n]
WithShortCodeLength(l, u) == [u EXCEPT !.shortCodeLength = l]

\* NewURLUseCase(urlRepo, opts...): the defaults, overridden by the options
NewURLUseCase ==
    {defaultURLUseCase}
    \cup {WithMaxRetries(n, defaultURLUseCase) : n \in -1..MaxRetriesOpt}
    \cup {WithShortCodeLength(l, defaultURLUseCase) : l \in -1..MaxLengthOpt}
    \cup {WithShortCodeLength(l, WithMaxRetries(n, defaultURLUseCase)) :
            n \in 1..MaxRetriesOpt, l \in 0..MaxLengthOpt}

VARIABLES
    urls,        \* the urls table: a set of rows
    nextId,      \* the id sequence of the urls table
    now,         \* the database clock: it ticks with every repository call
    uc,          \* the URLUseCase instance: maxRetries, shortCodeLength
    pc,          \* per caller: where its current invocation stands
    req,         \* per caller: operation and arguments of the invocation,
                 \* whether its ctx has been cancelled and, of a DeactivateURL
                 \* call, the calls on the same code that were pending when
                 \* it was made
    loc,         \* per caller: ShortenURL's locals i, shortCodeLength, shortCode and
                 \* the (url, err) of the Save call that ended the loop; of a
                 \* direct Remove call, what the driver answered
    attempts,    \* per caller: the Save calls of the invocation, in order: the
                 \* candidate's length and the root of the error Save answered
    ret,         \* per caller: the (url, err) the invocation returned
    calls,       \* what the behaviour may still start: ops invocations, saves
                 \* Save calls on a repository that is not the PostgreSQL one
    resolves,    \* per code: the current burst of overlapping ResolveShortCode calls
    saves        \* per code: the current burst of overlapping Save calls

vars == <<urls, nextId, now, uc, pc, req, loc, attempts, ret, calls, resolves, saves>>

(* ------------------------- the urls table (SQL) ------------------------ *)
\* A statement's result: the table and id sequence after it, the rows it
\* returned, the number of rows it affected and the driver's error.

\* The row INSERT INTO urls(short_code, original_url) creates: id from the
\* sequence, access_count, created_at and updated_at from the column defaults.
NewRow(nid, shortCode, originalURL) ==
    [id |-> nid, short_code |-> shortCode, original_url |-> originalURL, access_count |-> 0,
     created_at |-> now, updated_at |-> now]

\* The table refreshes updated_at of every row an UPDATE statement writes.
RefreshUpdatedAt(r) == [r EXCEPT !.updated_at = now]

\* variant: the table has no unique index on short_code
UniqueShortCodeNotEnforced(tbl, shortCode) == FALSE

\* The unique index on urls.short_code rejects a second row with the code.
UniqueShortCodeViolated(tbl, shortCode) == \E r \in tbl : r.short_code = shortCode

\* A statement on a broken connection: not executed, the driver reports it.
connFailed(tbl, nid) ==
    [urls |-> tbl, nextId |-> nid, rows |-> {}, affected |-> 0, err |-> <<ErrBadConn>>]

\* variant: ... ON CONFLICT (short_code) DO UPDATE SET original_url = $2
sqlInsertUpsert(tbl, nid, shortCode, originalURL) ==
    LET hit == {r \in tbl : r.short_code = shortCode}
        new == IF hit = {} THEN {NewRow(nid, shortCode, originalURL)}
               ELSE {[r EXCEPT !.original_url = originalURL] : r \in hit}
    IN [urls |-> (tbl \ hit) \cup new, nextId |-> nid + 1, rows |-> new, affected |-> 1,
        err |-> NoErr]

\* variant: INSERT INTO urls(short_code) VALUES ($1), original_url not given
sqlInsertWithoutURL(tbl, nid, shortCode, originalURL) ==
    IF UniqueShortCodeViolated(tbl, shortCode)
    THEN [urls |-> tbl, nextId |-> nid, rows |-> {}, affected |-> 0,
          err |-> DriverPgError(uniqueViolationErrCode)]
    ELSE LET row == NewRow(nid, shortCode, "")
         IN [urls |-> tbl \cup {row}, nextId |-> nid + 1, rows |-> {row}, affected |-> 1,
             err |-> NoErr]

\* variant: the statement without RETURNING *, which stores the row and
\* returns none
sqlInsertNoReturning(tbl, nid, shortCode, originalURL) ==
    IF UniqueShortCodeViolated(tbl, shortCode)
    THEN [urls |-> tbl, nextId |-> nid, rows |-> {}, affected |-> 0,
          err |-> DriverPgError(uniqueViolationErrCode)]
    ELSE LET row == NewRow(nid, shortCode, originalURL)
         IN [urls |-> tbl \cup {row}, nextId |-> nid + 1, rows |-> {}, affected |-> 1,
             err |-> NoErr]

\* INSERT INTO urls(short_code, original_url) VALUES ($1, $2) RETURNING *
sqlInsert(tbl, nid, shortCode, originalURL) ==
    IF UniqueShortCodeViolated(tbl, shortCode)
    THEN [urls |-> tbl, nextId |-> nid, rows |-> {}, affected |-> 0,
          err |-> DriverPgError(uniqueViolationErrCode)]
    ELSE LET row == NewRow(nid, shortCode, originalURL)
         IN [urls |-> tbl \cup {row}, nextId |-> nid + 1, rows |-> {row}, affected |-> 1,
             err |-> NoErr]

\* variant: the read counts as an access, as the statement of
\* RetrieveAndUpdateStats does
sqlSelectCounts(tbl, nid, shortCode) ==
    LET hit == {r \in tbl : r.short_code = shortCode}
        new == {[r EXCEPT !.access_count = @ + 1] : r \in hit}
    IN [urls |-> (tbl \ hit) \cup new, nextId |-> nid, rows |-> new, affected |-> 0,
        err |-> NoErr]

\* SELECT * FROM urls WHERE short_code = $1
sqlSelect(tbl, nid, shortCode) ==
    LET hit == {r \in tbl : r.short_code = shortCode}
    IN [urls |-> tbl, nextId |-> nid, rows |-> hit, affected |-> 0, err |-> NoErr]

\* variant: SET access_count = 1, a write of the count instead of an
\* increment in place, so a second call's update is lost
sqlIncrementOverwrites(tbl, nid, shortCode) ==
    LET hit == {r \in tbl : r.short_code = shortCode}
        new == {[r EXCEPT !.access_count = 1] : r \in hit}
    IN [urls |-> (tbl \ hit) \cup new, nextId |-> nid, rows |-> new,
        affected |-> Cardinality(hit), err |-> NoErr]

\* variant: the row is read first and incremented afterwards, so the caller
\* gets the row as it was before its own increment
sqlIncrementReturnsOld(tbl, nid, shortCode) ==
    LET hit == {r \in tbl : r.short_code = shortCode}
        new == {[r EXCEPT !.access_count = r.access_count + 1] : r \in hit}
    IN [urls |-> (tbl \ hit) \cup new, nextId |-> nid, rows |-> hit,
        affected |-> Cardinality(hit), err |-> NoErr]

\* variant: the statement touches the row and returns it, the SET of
\* access_count left out
sqlIncrementSkipped(tbl, nid, shortCode) ==
    LET hit == {r \in tbl : r.short_code = shortCode}
        new == {RefreshUpdatedAt(r) : r \in hit}
    IN [urls |-> (tbl \ hit) \cup new, nextId |-> nid, rows |-> new,
        affected |-> Cardinality(hit), err |-> NoErr]

\* UPDATE urls SET access_count = access_count + 1 WHERE short_code = $1 RETURNING *
sqlIncrement(tbl, nid, shortCode) ==
    LET hit == {r \in tbl : r.short_code = shortCode}
        new == {RefreshUpdatedAt([r EXCEPT !.access_count = r.access_count + 1]) : r \in hit}
    IN [urls |-> (tbl \ hit) \cup new, nextId |-> nid, rows |-> new,
        affected |-> Cardinality(hit), err |-> NoErr]

\* variant: the row is deleted and inserted again, which draws a new id
sqlUpdateReinserts(tbl, nid, shortCode, originalURL) ==
    LET hit == {r \in tbl : r.short_code = shortCode}
        new == {[r EXCEPT !.original_url = originalURL, !.id = nid] : r \in hit}
    IN [urls |-> (tbl \ hit) \cup new, nextId |-> nid + Cardinality(hit), rows |-> new,
        affected |-> Cardinality(hit), err |-> NoErr]

\* variant: the statement writes the whole row anew, access_count included
sqlUpdateResetsCount(tbl, nid, shortCode, originalURL) ==
    LET hit == {r \in tbl : r.short_code = shortCode}
        new == {[r EXCEPT !.original_url = originalURL, !.access_count = 0] : r \in hit}
    IN [urls |-> (tbl \ hit) \cup new, nextId |-> nid, rows |-> new,
        affected |-> Cardinality(hit), err |-> NoErr]

\* variant: the statement writes original_url past the refresh of
\* updated_at, which keeps its old value
sqlUpdateKeepsUpdatedAt(tbl, nid, shortCode, originalURL) ==
    LET hit == {r \in tbl : r.short_code = shortCode}
        new == {[r EXCEPT !.original_url = originalURL] : r \in hit}
    IN [urls |-> (tbl \ hit) \cup new, nextId |-> nid, rows |-> new,
        affected |-> Cardinality(hit), err |-> NoErr]

\* variant: SET original_url = $1, access_count = access_count + 1, the
\* modification counted as an access
sqlUpdateCountsAccess(tbl, nid, shortCode, originalURL) ==
    LET hit == {r \in tbl : r.short_code = shortCode}
        new == {RefreshUpdatedAt([r EXCEPT !.original_url = originalURL,
                                          !.access_count = @ + 1]) : r \in hit}
    IN [urls |-> (tbl \ hit) \cup new, nextId |-> nid, rows |-> new,
        affected |-> Cardinality(hit), err |-> NoErr]

\* UPDATE urls SET original_url = $1 WHERE short_code = $2 RETURNING *
sqlUpdate(tbl, nid, shortCode, originalURL) ==
    LET hit == {r \in tbl : r.short_code = shortCode}
        new == {RefreshUpdatedAt([r EXCEPT !.original_url = originalURL]) : r \in hit}
    IN [urls |-> (tbl \ hit) \cup new, nextId |-> nid, rows |-> new,
        affected |-> Cardinality(hit), err |-> NoErr]

\* variant: the row is marked as deleted and stays in the table
sqlDeleteMarks(tbl, nid, shortCode) ==
    LET hit == {r \in tbl : r.short_code = shortCode}
    IN [urls |-> tbl, nextId |-> nid, rows |-> {}, affected |-> Cardinality(hit),
        err |-> NoErr]

\* variant: DELETE FROM urls, the WHERE clause left out
sqlDeleteAll(tbl, nid, shortCode) ==
    [urls |-> {}, nextId |-> nid, rows |-> {}, affected |-> Cardinality(tbl), err |-> NoErr]

\* DELETE FROM urls WHERE short_code = $1
sqlDelete(tbl, nid, shortCode) ==
    LET hit == {r \in tbl : r.short_code = shortCode}
    IN [urls |-> tbl \ hit, nextId |-> nid, rows |-> {}, affected |-> Cardinality(hit),
        err |-> NoErr]

\* sqlx GetContext(ctx, &url, query, ...): the driver's error, sql.ErrNoRows
\* when the statement returned no row, else the first row scanned into dest.
GetContext(res) ==
    IF res.err # NoErr THEN [dest |-> {}, err |-> res.err]
    ELSE IF res.rows = {} THEN [dest |-> {}, err |-> <<sqlErrNoRows>>]
    ELSE [dest |-> {CHOOSE r \in res.rows : TRUE}, err |-> NoErr]

(* ----------------------------- repository ------------------------------ *)
\* A repository result: the table and sequence after the call, the returned
\* *entity.URL ({} is nil, else one entity) and the returned error.

\* variant: the embedded URLStats is left at its zero value
toEntityNoStats(u) ==
    [ID |-> u.id, ShortCode |-> u.short_code, OriginalURL |-> u.original_url,
     AccessCount |-> 0, CreatedAt |-> u.created_at, UpdatedAt |-> u.updated_at]

\* urlDB.toEntity
toEntity(u) ==
    [ID |-> u.id, ShortCode |-> u.short_code, OriginalURL |-> u.original_url,
     AccessCount |-> u.access_count, CreatedAt |-> u.created_at, UpdatedAt |-> u.updated_at]

RepoResult(res, url, err) == [urls |-> res.urls, nextId |-> res.nextId, url |-> url, err |-> err]

\* URLRepository.Save
Save(tbl, nid, shortCode, originalURL, connOK) ==
    LET res == IF connOK THEN sqlInsert(tbl, nid, shortCode, originalURL) ELSE connFailed(tbl, nid)
        got == GetContext(res)
    IN IF got.err # NoErr
       THEN IF isUniqueViolationError(got.err)
            THEN RepoResult(res, {}, Wrapf("Save", <<ErrShortCodeExists>>))
            ELSE RepoResult(res, {}, Wrapf("Save: failed to insert into urls table", got.err))
       ELSE RepoResult(res, {toEntity(u) : u \in got.dest}, NoErr)

\* URLRepository.RetrieveByShortCode
RetrieveByShortCode(tbl, nid, shortCode, connOK) ==
    LET res == IF connOK THEN sqlSelect(tbl, nid, shortCode) ELSE connFailed(tbl, nid)
        got == GetContext(res)
    IN IF got.err # NoErr
       THEN IF errorsIs(got.err, sqlErrNoRows)
            THEN RepoResult(res, {}, Wrapf("RetrieveByShortCode", <<ErrURLNotFound>>))
            ELSE RepoResult(res, {}, Wrapf("RetrieveByShortCode: failed to get row from urls table", got.err))
       ELSE RepoResult(res, {toEntity(u) : u \in got.dest}, NoErr)

\* URLRepository.RetrieveAndUpdateStats
RetrieveAndUpdateStats(tbl, nid, shortCode, connOK) ==
    LET res == IF connOK THEN sqlIncrement(tbl, nid, shortCode) ELSE connFailed(tbl, nid)
        got == GetContext(res)
    IN IF got.err # NoErr
       THEN IF errorsIs(got.err, sqlErrNoRows)
            THEN RepoResult(res, {}, Wrapf("RetrieveAndUpdateStats", <<ErrURLNotFound>>))
            ELSE RepoResult(res, {}, Wrapf("RetrieveAndUpdateStats: failed to get and update urls table row", got.err))
       ELSE RepoResult(res, {toEntity(u) : u \in got.dest}, NoErr)

\* URLRepository.Update
Update(tbl, nid, shortCode, originalURL, connOK) ==
    LET res == IF connOK THEN sqlUpdate(tbl, nid, shortCode, originalURL) ELSE connFailed(tbl, nid)
        got == GetContext(res)
    IN IF got.err # NoErr
       THEN IF errorsIs(got.err, sqlErrNoRows)
            THEN RepoResult(res, {}, Wrapf("Update", <<ErrURLNotFound>>))
            ELSE RepoResult(res, {}, Wrapf("Update: failed to update urls table row", got.err))
       ELSE RepoResult(res, {toEntity(u) : u \in got.dest}, NoErr)

\* The error Remove returns for the driver's answers: the error of
\* ExecContext, the number and the error of res.RowsAffected().
RemoveErr(execErr, rowsAffected, affErr) ==
    IF execErr # NoErr
    THEN Wrapf("Remove: failed to delete from urls table", execErr)
    ELSE IF affErr # NoErr
         THEN Wrapf("Remove: failed to get number of affected rows", affErr)
         ELSE IF rowsAffected # 1
              THEN Wrapf("Remove", <<ErrURLNotFound>>)
              ELSE NoErr

\* variant: Remove does not look at RowsAffected
RemoveUnchecked(tbl, nid, shortCode, connOK) ==
    LET res == IF connOK THEN sqlDelete(tbl, nid, shortCode) ELSE connFailed(tbl, nid)
    IN IF res.err # NoErr
       THEN RepoResult(res, {}, Wrapf("Remove: failed to delete from urls table", res.err))
       ELSE RepoResult(res, {}, NoErr)

\* URLRepository.Remove (ExecContext, then RowsAffected)
\* (the pgx driver's RowsAffected returns no error)
Remove(tbl, nid, shortCode, connOK) ==
    LET res == IF connOK THEN sqlDelete(tbl, nid, shortCode) ELSE connFailed(tbl, nid)
    IN RepoResult(res, {}, RemoveErr(res.err, res.affected, NoErr))

(* ------------------- bursts of overlapping calls ----------------------- *)
\* Bookkeeping of the calls that overlap in time on one short code, kept as
\* a set of records with at most one record per code.

ArgCodes == Strings(defaultURLUseCase.shortCodeLength)

HasRow(tbl, c) == \E r \in tbl : r.short_code = c
RowsOf(tbl, c) == {r \in tbl : r.short_code = c}

Burst(S, c) == CHOOSE b \in S : b.code = c
Started(S, c) == \E b \in S : b.code = c
Put(S, b) == {x \in S : x.code # b.code} \cup {b}
\* another operation touched the record of c: its bursts no longer qualify
Spoil(S, c) == {IF b.code = c THEN [b EXCEPT !.ok = FALSE] ELSE b : b \in S}

Drop(S, c) == {x \in S : x.code # c}

\* the callers inside a ResolveShortCode invocation on c, answered or not
ResolveCallers(c) ==
    {q \in Procs : req[q].op = "ResolveShortCode" /\ req[q].shortCode = c}

\* a ResolveShortCode invocation on c whose statement has not run yet
ResolvePending(c) == \E q \in ResolveCallers(c) : pc[q] = "ResolveShortCode"

\* the DeactivateURL invocations on c whose statement has not run yet
DeactivatePending(c) ==
    {q \in Procs : pc[q] = "DeactivateURL" /\ req[q].shortCode = c}

\* the callers whose latest Save call had candidate c
SaveCallers(c) == {q \in Procs : req[q].op = "ShortenURL" /\ loc[q].shortCode = c}

\* a Save call on candidate c that the repository has not answered yet
SavePending(c) == \E q \in SaveCallers(c) : pc[q] = "Save"

\* caller p enters ResolveShortCode(c): it joins the burst of a call on c that
\* is still pending, and starts a new burst otherwise
JoinResolves(p, c) ==
    IF ResolvePending(c) /\ Started(resolves, c)
    THEN Put(resolves, [Burst(resolves, c) EXCEPT !.n = @ + 1])
    ELSE Put(resolves, [code |-> c, n |-> 1, ok |-> HasRow(urls, c),
                        base |-> IF HasRow(urls, c)
                                 THEN (CHOOSE r \in urls : r.short_code = c).access_count
                                 ELSE 0])

\* caller p is done with its call on c: the last one out ends the burst
Leave(S, callers, p, c) == IF callers \ {p} = {} THEN Drop(S, c) ELSE S

\* caller p, whose previous candidate was c0, enters Save with candidate c
JoinSaves(p, c0, c) ==
    LET S == Leave(saves, SaveCallers(c0), p, c0)
    IN IF SavePending(c) /\ Started(S, c)
       THEN Put(S, [Burst(S, c) EXCEPT !.n = @ + 1])
       ELSE Put(S, [code |-> c, n |-> 1, ok |-> ~HasRow(urls, c), succ |-> 0, conf |-> 0])

\* the answer r of one Save call on c, counted into the burst
CountSave(c, r, connOK) ==
    IF ~Started(saves, c) THEN saves
    ELSE Put(saves, [Burst(saves, c) EXCEPT
                       !.ok = @ /\ connOK,
                       !.succ = @ + (IF r.url # {} THEN 1 ELSE 0),
                       !.conf = @ + (IF errorsIs(r.err, ErrShortCodeExists) THEN 1 ELSE 0)])

(* --------------------------- URLUseCase -------------------------------- *)

NoReq == [op |-> "none", shortCode |-> NoCode, originalURL |-> "", ctxDone |-> FALSE]
NoLoc == [i |-> 0, shortCodeLength |-> 0, shortCode |-> NoCode, url |-> {}, err |-> NoErr]
NoRet == [url |-> {}, err |-> NoErr]

\* variant: i <= uc.maxRetries
LoopContinuesOffByOne(i, maxRetries) == i <= maxRetries

\* variant: the budget is tested after the body, which runs at least once
LoopContinuesAfterBody(i, maxRetries) == i = 0 \/ i < maxRetries

\* for i := 0; i < uc.maxRetries; i++
LoopContinues(i, maxRetries) == i < maxRetries

\* variant: err == entity.ErrShortCodeExists, which misses a wrapped conflict
IsConflictByIdentity(err) == err = <<ErrShortCodeExists>>

\* errors.Is(err, entity.ErrShortCodeExists)
IsConflict(err) == errorsIs(err, ErrShortCodeExists)

\* variant: the length is not increased
NextShortCodeLengthSame(l) == l

\* shortCodeLength++
NextShortCodeLength(l) == l + 1

\* variant: the length lives in a field the invocations share, so a new
\* invocation starts from the length another one has raised it to
FirstShortCodeLengthShared(u) ==
    IF \E q \in Procs : loc[q].shortCodeLength > u.shortCodeLength
    THEN loc[CHOOSE q \in Procs : loc[q].shortCodeLength > u.shortCodeLength].shortCodeLength
    ELSE u.shortCodeLength

\* shortCodeLength := uc.shortCodeLength
FirstShortCodeLength(u) == u.shortCodeLength

\* variant: the repository's error formatted with %v, its chain lost
DelegateOpaque(text, r) ==
    IF r.err # NoErr THEN [url |-> {}, err |-> <<errorsNew(text)>>]
    ELSE [url |-> r.url, err |-> NoErr]

\* what a use-case method returns for the repository's (url, err)
Delegate(text, r) ==
    IF r.err # NoErr THEN [url |-> {}, err |-> Wrapf(text, r.err)]
    ELSE [url |-> r.url, err |-> NoErr]

\* variant: return nil, nil on success
ShortenURLResultNoRecord(r) ==
    IF r.err # NoErr
    THEN [url |-> {}, err |-> Wrapf("ShortenURL: failed to shorten url", r.err)]
    ELSE [url |-> {}, err |-> NoErr]

\* variant: the Save error is formatted with %v, not wrapped with %w
ShortenURLResultOpaque(r) ==
    IF r.err # NoErr
    THEN [url |-> {}, err |-> Wrapf("ShortenURL: failed to shorten url", NoErr)]
    ELSE [url |-> r.url, err |-> NoErr]

\* what ShortenURL returns when the answer r of Save ends the loop:
\* return nil, fmt.Errorf("...: %w", err)  /  return url, nil
ShortenURLResult(r) ==
    IF r.err # NoErr
    THEN [url |-> {}, err |-> Wrapf("ShortenURL: failed to shorten url", r.err)]
    ELSE [url |-> r.url, err |-> NoErr]

Finish(p, result) ==
    /\ pc' = [pc EXCEPT ![p] = "done"]
    /\ ret' = [ret EXCEPT ![p] = result]

\* a caller invokes ShortenURL(ctx, originalURL)
CallShortenURL(p, u) ==
    /\ pc[p] = "idle"
    /\ calls.ops > 0
    /\ calls' = [calls EXCEPT !.ops = @ - 1]
    /\ pc' = [pc EXCEPT ![p] = "ShortenURL"]
    /\ req' = [req EXCEPT ![p] = [op |-> "ShortenURL", shortCode |-> NoCode, originalURL |-> u,
                                   ctxDone |-> FALSE]]
    /\ loc' = [loc EXCEPT ![p] = [NoLoc EXCEPT !.shortCodeLength = FirstShortCodeLength(uc)]]
    /\ UNCHANGED <<urls, nextId, now, uc, attempts, ret, resolves, saves>>

\* variant: the generator's error is dropped and its empty result used
GenerateFailedIgnored(err) == FALSE

\* shortCode, err := gonanoid.New(shortCodeLength); if err != nil
GenerateFailed(err) == err # NoErr

\* ShortenURL, loop head: the budget test, then gonanoid.New(shortCodeLength)
ShortenURLGenerate(p) ==
    /\ pc[p] = "ShortenURL"
    /\ IF LoopContinues(loc[p].i, uc.maxRetries)
       THEN \E g \in gonanoidNew(loc[p].shortCodeLength) :
              IF GenerateFailed(g.err)
              THEN /\ Finish(p, [url |-> {},
                                 err |-> Wrapf("ShortenURL: failed to generate short code", g.err)])
                   /\ UNCHANGED loc
              ELSE /\ pc' = [pc EXCEPT ![p] = "Save"]
                   /\ loc' = [loc EXCEPT ![p].shortCode = g.id]
                   /\ UNCHANGED ret
       ELSE /\ Finish(p, [url |-> {}, err |-> Wrapf("ShortenURL", <<ErrMaxRetriesExceeded>>)])
            /\ UNCHANGED loc
    /\ UNCHANGED <<urls, nextId, now, uc, req, attempts, calls, resolves>>

\* the same step over the PostgreSQL repository, entering the Save call
ShortenURLCallSave(p) ==
    /\ ShortenURLGenerate(p)
    /\ saves' = IF pc'[p] = "Save"
                 THEN JoinSaves(p, loc[p].shortCode, loc'[p].shortCode)
                 ELSE saves

\* ShortenURL, rest of the loop body, for the answer r of urlRepo.Save
ShortenURLAfterSave(p, r) ==
    /\ attempts' = [attempts EXCEPT ![p] =
                      Append(@, [length |-> StrLen(loc[p].shortCode), cause |-> Cause(r.err)])]
    /\ IF r.err # NoErr
       THEN IF IsConflict(r.err)
            THEN /\ pc' = [pc EXCEPT ![p] = "ShortenURL"]
                 /\ loc' = [loc EXCEPT ![p].shortCodeLength = NextShortCodeLength(@),
                                       ![p].i = @ + 1,
                                       ![p].shortCode = NoCode]
                 /\ UNCHANGED ret
            ELSE /\ Finish(p, ShortenURLResult(r))
                 /\ loc' = [loc EXCEPT ![p].url = r.url, ![p].err = r.err]
       ELSE /\ Finish(p, ShortenURLResult(r))
            /\ loc' = [loc EXCEPT ![p].url = r.url, ![p].err = r.err]
    /\ UNCHANGED <<uc, req>>

\* ShortenURL over the PostgreSQL repository: urlRepo.Save runs its statement
ShortenURLSave(p) ==
    /\ pc[p] = "Save"
    /\ \E connOK \in BOOLEAN :
         LET c == loc[p].shortCode
             r == Save(urls, nextId, c, req[p].originalURL, connOK)
         IN /\ ShortenURLAfterSave(p, r)
            /\ urls' = r.urls
            /\ nextId' = r.nextId
            /\ now' = now + 1
            /\ saves' = CountSave(c, r, connOK)
            /\ resolves' = IF r.url # {} THEN Spoil(resolves, c) ELSE resolves
    /\ UNCHANGED calls

\* a caller invokes ResolveShortCode, ModifyURL, DeactivateURL or GetURLStats
CallResolveShortCode(p, c) ==
    /\ pc[p] = "idle"
    /\ calls.ops > 0
    /\ calls' = [calls EXCEPT !.ops = @ - 1]
    /\ pc' = [pc EXCEPT ![p] = "ResolveShortCode"]
    /\ req' = [req EXCEPT ![p] = [op |-> "ResolveShortCode", shortCode |-> c, originalURL |-> "",
                                   ctxDone |-> FALSE]]
    /\ resolves' = JoinResolves(p, c)
    /\ UNCHANGED <<urls, nextId, now, uc, loc, attempts, ret, saves>>

CallModifyURL(p, c, u) ==
    /\ pc[p] = "idle"
    /\ calls.ops > 0
    /\ calls' = [calls EXCEPT !.ops = @ - 1]
    /\ pc' = [pc EXCEPT ![p] = "ModifyURL"]
    /\ req' = [req EXCEPT ![p] = [op |-> "ModifyURL", shortCode |-> c, originalURL |-> u,
                                   ctxDone |-> FALSE]]
    /\ UNCHANGED <<urls, nextId, now, uc, loc, attempts, ret, resolves, saves>>

CallDeactivateURL(p, c) ==
    /\ pc[p] = "idle"
    /\ calls.ops > 0
    /\ calls' = [calls EXCEPT !.ops = @ - 1]
    /\ pc' = [pc EXCEPT ![p] = "DeactivateURL"]
    /\ req' = [req EXCEPT ![p] = [op |-> "DeactivateURL", shortCode |-> c, originalURL |-> "",
                                   ctxDone |-> FALSE, overlaps |-> DeactivatePending(c)]]
    /\ UNCHANGED <<urls, nextId, now, uc, loc, attempts, ret, resolves, saves>>

CallGetURLStats(p, c) ==
    /\ pc[p] = "idle"
    /\ calls.ops > 0
    /\ calls' = [calls EXCEPT !.ops = @ - 1]
    /\ pc' = [pc EXCEPT ![p] = "GetURLStats"]
    /\ req' = [req EXCEPT ![p] = [op |-> "GetURLStats", shortCode |-> c, originalURL |-> "",
                                   ctxDone |-> FALSE]]
    /\ UNCHANGED <<urls, nextId, now, uc, loc, attempts, ret, resolves, saves>>

\* URLUseCase.ResolveShortCode
ResolveShortCode(p) ==
    /\ pc[p] = "ResolveShortCode"
    /\ \E connOK \in BOOLEAN :
         LET c == req[p].shortCode
             r == RetrieveAndUpdateStats(urls, nextId, c, connOK)
         IN /\ Finish(p, Delegate("ResolveShortCode: failed to resolve short code", r))
            /\ urls' = r.urls
            /\ nextId' = r.nextId
            /\ now' = now + 1
            /\ loc' = [loc EXCEPT ![p].url = r.url, ![p].err = r.err]
            /\ resolves' = IF ~connOK THEN Spoil(resolves, c) ELSE resolves
    /\ UNCHANGED <<uc, req, attempts, calls, saves>>

\* URLUseCase.ModifyURL
ModifyURL(p) ==
    /\ pc[p] = "ModifyURL"
    /\ \E connOK \in BOOLEAN :
         LET c == req[p].shortCode
             r == Update(urls, nextId, c, req[p].originalURL, connOK)
         IN /\ Finish(p, Delegate("ModifyURL: failed to modify url", r))
            /\ urls' = r.urls
            /\ nextId' = r.nextId
            /\ now' = now + 1
            /\ loc' = [loc EXCEPT ![p].url = r.url, ![p].err = r.err]
            /\ resolves' = IF r.err = NoErr THEN Spoil(resolves, c) ELSE resolves
    /\ UNCHANGED <<uc, req, attempts, calls, saves>>

\* URLUseCase.DeactivateURL
DeactivateURL(p) ==
    /\ pc[p] = "DeactivateURL"
    /\ \E connOK \in BOOLEAN :
         LET c == req[p].shortCode
             r == Remove(urls, nextId, c, connOK)
         IN /\ Finish(p, Delegate("DeactivateURL: failed to deactivate url", r))
            /\ urls' = r.urls
            /\ nextId' = r.nextId
            /\ now' = now + 1
            /\ loc' = [loc EXCEPT ![p].url = r.url, ![p].err = r.err]
            /\ resolves' = IF r.err = NoErr THEN Spoil(resolves, c) ELSE resolves
            /\ saves' = IF r.err = NoErr THEN Spoil(saves, c) ELSE saves
    /\ UNCHANGED <<uc, req, attempts, calls>>

\* URLUseCase.GetURLStats
GetURLStats(p) ==
    /\ pc[p] = "GetURLStats"
    /\ \E connOK \in BOOLEAN :
         LET r == RetrieveByShortCode(urls, nextId, req[p].shortCode, connOK)
         IN /\ Finish(p, Delegate("GetURLStats: failed to get url stats", r))
            /\ urls' = r.urls
            /\ nextId' = r.nextId
            /\ now' = now + 1
            /\ loc' = [loc EXCEPT ![p].url = r.url, ![p].err = r.err]
    /\ UNCHANGED <<uc, req, attempts, calls, resolves, saves>>

\* the invocation returns to its caller, whose goroutine ends
Return(p) ==
    /\ pc[p] = "done"
    /\ pc' = [pc EXCEPT ![p] = "idle"]
    /\ req' = [req EXCEPT ![p] = NoReq]
    /\ loc' = [loc EXCEPT ![p] = NoLoc]
    /\ attempts' = [attempts EXCEPT ![p] = <<>>]
    /\ ret' = [ret EXCEPT ![p] = NoRet]
    /\ resolves' = IF req[p].op = "ResolveShortCode"
                    THEN Leave(resolves, ResolveCallers(req[p].shortCode), p, req[p].shortCode)
                    ELSE resolves
    /\ saves' = IF req[p].op = "ShortenURL"
                 THEN Leave(saves, SaveCallers(loc[p].shortCode), p, loc[p].shortCode)
                 ELSE saves
    /\ UNCHANGED <<urls, nextId, now, uc, calls>>

(* ------------------ the service: use case over PostgreSQL -------------- *)

\* app wiring: usecase.NewURLUseCase(urlRepo), no options, on a migrated table
\* the urls table the service finds when it starts: empty, or with one record
\* that an earlier run of the service stored
StoredBefore ==
    {{}, {[NewRow(1, CHOOSE c \in ArgCodes : TRUE, CHOOSE u \in URLs : TRUE)
             EXCEPT !.created_at = 0, !.updated_at = 0]}}

Init ==
    /\ now = 1
    /\ urls \in StoredBefore
    /\ nextId = Cardinality(urls) + 1
    /\ uc = defaultURLUseCase
    /\ pc = [p \in Procs |-> "idle"]
    /\ req = [p \in Procs |-> NoReq]
    /\ loc = [p \in Procs |-> NoLoc]
    /\ attempts = [p \in Procs |-> <<>>]
    /\ ret = [p \in Procs |-> NoRet]
    /\ calls = [ops |-> MaxCalls, saves |-> 0]
    /\ resolves = {}
    /\ saves = {}

Next ==
    \E p \in Procs :
        \/ \E u \in URLs : CallShortenURL(p, u)
        \/ ShortenURLCallSave(p)
        \/ ShortenURLSave(p)
        \/ \E c \in ArgCodes : CallResolveShortCode(p, c)
        \/ \E c \in ArgCodes, u \in URLs : CallModifyURL(p, c, u)
        \/ \E c \in ArgCodes : CallDeactivateURL(p, c)
        \/ \E c \in ArgCodes : CallGetURLStats(p, c)
        \/ ResolveShortCode(p)
        \/ ModifyURL(p)
        \/ DeactivateURL(p)
        \/ GetURLStats(p)
        \/ Return(p)

Spec == Init /\ [][Next]_vars

\* the service from its first start, on the empty table the migrations create
InitRun ==
    /\ now = 1
    /\ urls = {}
    /\ nextId = 1
    /\ uc = defaultURLUseCase
    /\ pc = [p \in Procs |-> "idle"]
    /\ req = [p \in Procs |-> NoReq]
    /\ loc = [p \in Procs |-> NoLoc]
    /\ attempts = [p \in Procs |-> <<>>]
    /\ ret = [p \in Procs |-> NoRet]
    /\ calls = [ops |-> MaxCallsRun, saves |-> 0]
    /\ resolves = {}
    /\ saves = {}

SpecRun == InitRun /\ [][Next]_vars

\* ShortenURL of a use case built with any options, over the PostgreSQL
\* repository
InitConfigured ==
    /\ now = 1
    /\ urls \in StoredBefore
    /\ nextId = Cardinality(urls) + 1
    /\ uc \in NewURLUseCase
    /\ pc = [p \in Procs |-> "idle"]
    /\ req = [p \in Procs |-> NoReq]
    /\ loc = [p \in Procs |-> NoLoc]
    /\ attempts = [p \in Procs |-> <<>>]
    /\ ret = [p \in Procs |-> NoRet]
    /\ calls = [ops |-> MaxCalls, saves |-> 0]
    /\ resolves = {}
    /\ saves = {}

NextConfigured ==
    \E p \in Procs :
        \/ \E u \in URLs : CallShortenURL(p, u)
        \/ ShortenURLCallSave(p)
        \/ ShortenURLSave(p)
        \/ Return(p)

SpecConfigured == InitConfigured /\ [][NextConfigured]_vars

(* --------------- the use case over any urlRepository ------------------- *)

\* urlRepository.Save as the use case sees it through the interface: a
\* record for the candidate, ErrShortCodeExists (bare or wrapped), or
\* another error.
urlRepoSave(shortCode, originalURL) ==
    {[url |-> {[ID |-> 0, ShortCode |-> shortCode, OriginalURL |-> originalURL, AccessCount |-> 0,
               CreatedAt |-> 0, UpdatedAt |-> 0]},
      err |-> NoErr]}
    \cup {[url |-> {}, err |-> e] :
            e \in {<<ErrShortCodeExists>>, Wrapf("Save", <<ErrShortCodeExists>>),
                   <<errUnknown>>, Wrapf("Save: failed to insert into urls table", <<ErrBadConn>>)}}

ShortenURLGenerateAny(p) ==
    /\ ShortenURLGenerate(p)
    /\ UNCHANGED saves

ShortenURLSaveAny(p) ==
    /\ pc[p] = "Save"
    /\ calls.saves > 0
    /\ calls' = [calls EXCEPT !.saves = @ - 1]
    /\ \E r \in IF req[p].ctxDone
                THEN {[url |-> {}, err |-> Wrapf("Save: failed to insert into urls table",
                                                 <<contextCanceled>>)]}
                ELSE urlRepoSave(loc[p].shortCode, req[p].originalURL) :
           ShortenURLAfterSave(p, r)
    /\ UNCHANGED <<urls, nextId, now, resolves, saves>>

InitUseCase ==
    /\ now = 1
    /\ urls = {}
    /\ nextId = 1
    /\ uc \in NewURLUseCase
    /\ pc = [p \in Procs |-> "idle"]
    /\ req = [p \in Procs |-> NoReq]
    /\ loc = [p \in Procs |-> NoLoc]
    /\ attempts = [p \in Procs |-> <<>>]
    /\ ret = [p \in Procs |-> NoRet]
    /\ calls = [ops |-> MaxCallsUseCase, saves |-> MaxSaves]
    /\ resolves = {}
    /\ saves = {}

NextUseCase ==
    \E p \in Procs :
        \/ \E u \in URLs : CallShortenURL(p, u)
        \/ ShortenURLGenerateAny(p)
        \/ ShortenURLSaveAny(p)
        \/ Return(p)

SpecUseCase == InitUseCase /\ [][NextUseCase]_vars

(* ---------------- URLRepository.Remove over any driver ----------------- *)
\* Remove called directly, on a database/sql driver that answers what it
\* likes, as the sqlmock driver of the repository's tests does.

\* the driver's answers to ExecContext and to res.RowsAffected()
DriverExec ==
    {[execErr |-> <<ErrBadConn>>, rowsAffected |-> 0, affErr |-> NoErr]}
    \cup {[execErr |-> NoErr, rowsAffected |-> 0, affErr |-> <<errAffectedRows>>]}
    \cup {[execErr |-> NoErr, rowsAffected |-> k, affErr |-> NoErr] : k \in 0..MaxAffected}

CallRemove(p, c) ==
    /\ pc[p] = "idle"
    /\ calls.ops > 0
    /\ calls' = [calls EXCEPT !.ops = @ - 1]
    /\ pc' = [pc EXCEPT ![p] = "Remove"]
    /\ req' = [req EXCEPT ![p] = [op |-> "Remove", shortCode |-> c, originalURL |-> "",
                                   ctxDone |-> FALSE]]
    /\ UNCHANGED <<urls, nextId, now, uc, loc, attempts, ret, resolves, saves>>

RemoveAny(p) ==
    /\ pc[p] = "Remove"
    /\ \E d \in DriverExec :
         /\ loc' = [loc EXCEPT ![p] = d]
         /\ Finish(p, [url |-> {}, err |-> RemoveErr(d.execErr, d.rowsAffected, d.affErr)])
    /\ UNCHANGED <<urls, nextId, now, uc, req, attempts, calls, resolves, saves>>

NextRemove ==
    \E p \in Procs :
        \/ \E c \in ArgCodes : CallRemove(p, c)
        \/ RemoveAny(p)
        \/ Return(p)

SpecRemove == Init /\ [][NextRemove]_vars

(* ------------- ShortenURL under a ctx that may be cancelled ------------ *)

\* the caller of a ShortenURL invocation cancels the ctx it passed
Cancel(p) ==
    /\ pc[p] \in {"ShortenURL", "Save"}
    /\ ~req[p].ctxDone
    /\ req' = [req EXCEPT ![p].ctxDone = TRUE]
    /\ UNCHANGED <<urls, nextId, now, uc, pc, loc, attempts, ret, calls, resolves, saves>>

NextCancel ==
    \E p \in Procs :
        \/ \E u \in URLs : CallShortenURL(p, u)
        \/ Cancel(p)
        \/ ShortenURLGenerateAny(p)
        \/ ShortenURLSaveAny(p)
        \/ Return(p)

SpecCancel == InitUseCase /\ [][NextCancel]_vars

(* ------------------- the HTTP handlers of the use case ----------------- *)
\* A handler runs against the urlUseCase interface.  Of a request the model
\* keeps the handler the router picked, the shortCode path parameter and the
\* body; of the response the status and the message or record written.

Handlers == {"shortenURL", "resolveShortCode", "modifyURL", "deactivateURL", "getURLStats"}

\* the use-case method a handler calls
UseCaseOf(h) ==
    CASE h = "shortenURL" -> "ShortenURL"
      [] h = "resolveShortCode" -> "ResolveShortCode"
      [] h = "modifyURL" -> "ModifyURL"
      [] h = "deactivateURL" -> "DeactivateURL"
      [] h = "getURLStats" -> "GetURLStats"

\* Request bodies: no body, a JSON value that is not an object, or an object
\* whose original_url is absent (""), not a URL, or a URL.
NoBody == [json |-> "none", original_url |-> ""]
Bodies ==
    {NoBody, [json |-> "string", original_url |-> ""]}
    \cup {[json |-> "object", original_url |-> u] : u \in {"", "invalid url"} \cup URLs}

ioEOF == errorsNew("EOF")
jsonUnmarshalTypeError == [type |-> "json.UnmarshalTypeError", code |-> "string"]
validatorValidationErrors(tag) == [type |-> "validator.ValidationErrors", code |-> tag]

\* render.DecodeJSON(r.Body, &req)
renderDecodeJSON(body) ==
    IF body.json = "none" THEN [req |-> [OriginalURL |-> ""], err |-> <<ioEOF>>]
    ELSE IF body.json # "object"
    THEN [req |-> [OriginalURL |-> ""], err |-> <<jsonUnmarshalTypeError>>]
    ELSE [req |-> [OriginalURL |-> body.original_url], err |-> NoErr]

\* h.validate.Struct(req) with OriginalURL `validate:"required,url"`
validateStruct(r) ==
    IF r.OriginalURL = "" THEN <<validatorValidationErrors("required")>>
    ELSE IF r.OriginalURL \notin URLs THEN <<validatorValidationErrors("url")>>
    ELSE NoErr

\* what a handler with a request body writes before it calls the use case:
\* nothing (status 0) when the body decodes and validates
BodyResponse(body) ==
    LET d == renderDecodeJSON(body)
    IN IF d.err # NoErr
       THEN IF errorsIs(d.err, ioEOF)
            THEN [status |-> 400, message |-> "empty request body", url |-> {}]
            ELSE [status |-> 400, message |-> "invalid request body", url |-> {}]
       ELSE IF validateStruct(d.req) # NoErr
            THEN [status |-> 400, message |-> "validation error", url |-> {}]
            ELSE [status |-> 0, message |-> "", url |-> {}]

\* variant: err == entity.ErrURLNotFound, which misses the wrapped error
IsNotFoundByIdentity(err) == err = <<ErrURLNotFound>>

\* errors.Is(err, entity.ErrURLNotFound)
IsNotFound(err) == errorsIs(err, ErrURLNotFound)

\* what a handler writes for the (url, err) of its use-case call
UseCaseResponse(h, r) ==
    IF r.err # NoErr
    THEN IF h # "shortenURL" /\ IsNotFound(r.err)
         THEN [status |-> 404, message |-> "url not found", url |-> {}]
         ELSE [status |-> 500, message |-> "server error occurred", url |-> {}]
    ELSE IF h = "shortenURL" THEN [status |-> 201, message |-> "", url |-> r.url]
    ELSE IF h = "deactivateURL" THEN [status |-> 204, message |-> "", url |-> {}]
    ELSE [status |-> 200, message |-> "", url |-> r.url]

\* urlUseCase as a handler sees it through the interface: a record (none
\* for DeactivateURL) or an error, ErrURLNotFound and ErrMaxRetriesExceeded
\* bare or wrapped among them
urlUseCaseAnswers(h, shortCode, originalURL) ==
    {[url |-> IF h = "deactivateURL" THEN {}
              ELSE {[ID |-> 1, ShortCode |-> shortCode, OriginalURL |-> originalURL,
                     AccessCount |-> 1, CreatedAt |-> 0, UpdatedAt |-> 0]},
      err |-> NoErr]}
    \cup {[url |-> {}, err |-> e] :
            e \in {<<ErrURLNotFound>>,
                   Wrapf(UseCaseOf(h), Wrapf("repository", <<ErrURLNotFound>>)),
                   Wrapf("ShortenURL", <<ErrMaxRetriesExceeded>>),
                   <<errUnknown>>}}

\* the router hands a request to handler h, which decodes and validates the
\* body if it takes one, and either answers or calls the use case
Serve(p, h, c, body) ==
    /\ pc[p] = "idle"
    /\ calls.ops > 0
    /\ calls' = [calls EXCEPT !.ops = @ - 1]
    /\ LET early == IF h \in {"shortenURL", "modifyURL"} THEN BodyResponse(body)
                    ELSE [status |-> 0, message |-> "", url |-> {}]
       IN /\ req' = [req EXCEPT ![p] =
                       [op |-> h, shortCode |-> c, body |-> body, ctxDone |-> FALSE,
                        originalURL |-> IF h \in {"shortenURL", "modifyURL"} /\ early.status = 0
                                        THEN renderDecodeJSON(body).req.OriginalURL
                                        ELSE ""]]
          /\ IF early.status # 0
             THEN Finish(p, early)
             ELSE /\ pc' = [pc EXCEPT ![p] = UseCaseOf(h)]
                  /\ UNCHANGED ret
    /\ UNCHANGED <<urls, nextId, now, uc, loc, attempts, resolves, saves>>

\* the use case returns and the handler writes the response
UseCaseReturns(p) ==
    /\ req[p].op \in Handlers
    /\ pc[p] = UseCaseOf(req[p].op)
    /\ \E r \in urlUseCaseAnswers(req[p].op, req[p].shortCode, req[p].originalURL) :
         /\ loc' = [loc EXCEPT ![p].url = r.url, ![p].err = r.err]
         /\ Finish(p, UseCaseResponse(req[p].op, r))
    /\ UNCHANGED <<urls, nextId, now, uc, req, attempts, calls, resolves, saves>>

\* The requests: POST /shorten with a body, PUT /shorten/{shortCode} with a
\* body, and GET, DELETE and GET .../stats of /shorten/{shortCode} without.
Requests ==
    {[h |-> "shortenURL", shortCode |-> NoCode, body |-> b] : b \in Bodies}
    \cup {[h |-> "modifyURL", shortCode |-> c, body |-> b] : c \in ArgCodes, b \in Bodies}
    \cup {[h |-> h, shortCode |-> c, body |-> NoBody] :
            h \in {"resolveShortCode", "deactivateURL", "getURLStats"}, c \in ArgCodes}

\* Handlers share no state, so the requests are served one after another, by
\* one client.
Client == CHOOSE p \in Procs : TRUE

InitHTTP ==
    /\ now = 1
    /\ urls = {}
    /\ nextId = 1
    /\ uc = defaultURLUseCase
    /\ pc = [p \in Procs |-> "idle"]
    /\ req = [p \in Procs |-> NoReq]
    /\ loc = [p \in Procs |-> NoLoc]
    /\ attempts = [p \in Procs |-> <<>>]
    /\ ret = [p \in Procs |-> NoRet]
    /\ calls = [ops |-> MaxCalls, saves |-> 0]
    /\ resolves = {}
    /\ saves = {}

NextHTTP ==
    \/ \E r \in Requests : Serve(Client, r.h, r.shortCode, r.body)
    \/ UseCaseReturns(Client)
    \/ Return(Client)

SpecHTTP == InitHTTP /\ [][NextHTTP]_vars

(* ======================= properties of the service ===================== *)

LookupOps == {"ResolveShortCode", "ModifyURL", "DeactivateURL", "GetURLStats"}

\* C1: in every reachable state no two stored rows have the same short_code.
C1_UniqueShortCode ==
    \A r1 \in urls, r2 \in urls : r1.short_code = r2.short_code => r1 = r2

\* the storage turned down an insert of a code that is stored
C1_Witness ==
    \E p \in Procs :
        /\ pc[p] = "done"
        /\ req[p].op = "ShortenURL"
        /\ errorsIs(ret[p].err, DriverPgError(uniqueViolationErrCode)[1])
        /\ HasRow(urls, loc[p].shortCode)

\* C2: once every call of a burst of N overlapping ResolveShortCode calls on
\* a stored code has returned, and nothing else touched the record, its
\* access_count is N above the value before the burst.
C2_AtomicIncrement ==
    \A b \in resolves :
        (b.ok /\ ~ResolvePending(b.code)) =>
            \E r \in urls : r.short_code = b.code /\ r.access_count = b.base + b.n

C2_Witness ==
    \E b \in resolves : b.ok /\ b.n >= 2 /\ ~ResolvePending(b.code)

\* C3: when every Save call of a burst of overlapping Save calls with one
\* candidate, no row having that code before the burst, has been answered,
\* exactly one returned a record, every other returned ErrShortCodeExists
\* and exactly one row with the code is stored.
C3_ExactlyOneSaveWins ==
    \A b \in saves :
        (b.ok /\ ~SavePending(b.code)) =>
            /\ b.succ = 1
            /\ b.conf = b.n - 1
            /\ Cardinality(RowsOf(urls, b.code)) = 1

\* C10: a lookup operation whose statement finds no row for the short code
\* returns ErrURLNotFound and no record, and leaves the table as it was.
C10_NotFoundPropagation ==
    [][\A p \in Procs :
          (pc[p] \in LookupOps /\ pc'[p] = "done" /\ ~HasRow(urls, req[p].shortCode)) =>
             /\ urls' = urls
             /\ ret'[p].url = {}
             /\ ret'[p].err # NoErr
             /\ (~errorsIs(ret'[p].err, ErrBadConn) => errorsIs(ret'[p].err, ErrURLNotFound))]_vars

C10_Witness ==
    \E p \in Procs :
        /\ pc[p] = "done"
        /\ req[p].op = "DeactivateURL"
        /\ errorsIs(ret[p].err, ErrURLNotFound)
        /\ \E r \in urls : r.access_count > 0

\* caller p's pending call of operation op gets its answer in this step
Answered(p, op) == pc[p] = op /\ pc'[p] = "done"

\* caller p's Save call stores a record in this step
Inserts(p, c) ==
    /\ pc[p] = "Save"
    /\ loc[p].shortCode = c
    /\ pc'[p] = "done"
    /\ ret'[p].err = NoErr

\* C11: DeactivateURL of a code with no record returns ErrURLNotFound; of a
\* stored code it returns nil and removes exactly that record; a code without
\* a record stays without one until a Save of that code succeeds, and until
\* then GetURLStats and ResolveShortCode of it return ErrURLNotFound.
C11_DeleteThenNotFound ==
    [][\A p \in Procs :
          LET c == req[p].shortCode
          IN /\ (Answered(p, "DeactivateURL") /\ ~errorsIs(ret'[p].err, ErrBadConn)) =>
                   IF HasRow(urls, c)
                   THEN /\ ret'[p].err = NoErr
                        /\ Cardinality(RowsOf(urls, c)) = 1
                        /\ urls' = urls \ RowsOf(urls, c)
                   ELSE /\ errorsIs(ret'[p].err, ErrURLNotFound)
                        /\ urls' = urls
             /\ ((Answered(p, "GetURLStats") \/ Answered(p, "ResolveShortCode"))
                   /\ ~HasRow(urls, c) /\ ~errorsIs(ret'[p].err, ErrBadConn)) =>
                   /\ errorsIs(ret'[p].err, ErrURLNotFound)
                   /\ ret'[p].url = {}
             /\ \A d \in ArgCodes :
                   (~HasRow(urls, d) /\ HasRow(urls', d)) => \E q \in Procs : Inserts(q, d)]_vars

\* a stored record was deactivated and a later lookup of its code was turned down
C11_Witness ==
    \E p \in Procs, q \in Procs :
        /\ pc[p] = "done" /\ req[p].op = "DeactivateURL" /\ ret[p].err = NoErr
        /\ pc[q] = "done" /\ req[q].op \in {"GetURLStats", "ResolveShortCode"}
        /\ req[q].shortCode = req[p].shortCode
        /\ errorsIs(ret[q].err, ErrURLNotFound)
        /\ ~HasRow(urls, req[p].shortCode)

\* C12: a successful ModifyURL replaces the original_url of the record with
\* the short code by the new URL, leaves its id, short_code, access_count and
\* created_at as they were, and leaves every other record as it was.
C12_UpdateFrame ==
    [][\A p \in Procs :
          (Answered(p, "ModifyURL") /\ ret'[p].err = NoErr) =>
              \E r \in urls : \E r2 \in urls' :
                  /\ r.short_code = req[p].shortCode
                  /\ r2 = [r EXCEPT !.original_url = req[p].originalURL,
                                    !.updated_at = r2.updated_at]
                  /\ urls' = (urls \ {r}) \cup {r2}]_vars

\* a record that was resolved before got a URL it did not have
C12_Witness ==
    \E p \in Procs, q \in Procs :
        /\ pc[p] = "done" /\ req[p].op = "ModifyURL" /\ ret[p].err = NoErr
        /\ pc[q] = "done" /\ req[q].op = "ResolveShortCode" /\ ret[q].err = NoErr
        /\ \E e \in ret[p].url, f \in ret[q].url :
              /\ e.ID = f.ID
              /\ e.OriginalURL = req[p].originalURL
              /\ e.OriginalURL # f.OriginalURL
              /\ e.AccessCount = f.AccessCount
              /\ e.AccessCount > 0

\* C13: when ShortenURL(u) returned a record with short code c and that
\* record is still stored as it was returned (nothing else changed it), a
\* ResolveShortCode(c) that the storage answers returns the record with
\* short code c, original URL u and access count 1.
C13_RoundTrip ==
    [][\A p \in Procs, q \in Procs :
          \A e \in ret[q].url :
              (/\ Answered(p, "ResolveShortCode")
               /\ pc[q] = "done" /\ req[q].op = "ShortenURL"
               /\ e.ShortCode = req[p].shortCode
               /\ \E r \in urls : toEntity(r) = e
               /\ ~errorsIs(ret'[p].err, ErrBadConn)) =>
                  /\ ret'[p].err = NoErr
                  /\ ret'[p].url # {}
                  /\ \A f \in ret'[p].url :
                        /\ f = [e EXCEPT !.AccessCount = 1, !.UpdatedAt = f.UpdatedAt]
                        /\ f.ShortCode = req[p].shortCode
                        /\ f.OriginalURL = req[q].originalURL]_vars

C13_Witness ==
    \E p \in Procs, q \in Procs :
        /\ pc[q] = "done" /\ req[q].op = "ShortenURL"
        /\ pc[p] = "done" /\ req[p].op = "ResolveShortCode"
        /\ \E e \in ret[q].url, f \in ret[p].url :
              /\ f.ID = e.ID
              /\ f.ShortCode = e.ShortCode
              /\ f.OriginalURL = req[q].originalURL
              /\ f.AccessCount = 1

\* caller p's ShortenURL returned the record e
Shortened(p, e) ==
    pc[p] = "done" /\ req[p].op = "ShortenURL" /\ ret[p].err = NoErr /\ e \in ret[p].url

\* C14 as claimed: no two successful ShortenURL calls of a run return records
\* with the same short code.
C14_NoCodeTwice ==
    \A p \in Procs, q \in Procs :
        \A e \in ret[p].url, f \in ret[q].url :
            (p # q /\ Shortened(p, e) /\ Shortened(q, f)) => e.ShortCode # f.ShortCode

\* C14: two successful ShortenURL calls return records with different ids,
\* and with different short codes unless the earlier of the two records has
\* been removed by DeactivateURL.
C14_NoLiveCodeTwice ==
    \A p \in Procs, q \in Procs :
        \A e \in ret[p].url, f \in ret[q].url :
            (p # q /\ Shortened(p, e) /\ Shortened(q, f)) =>
                /\ e.ID # f.ID
                /\ (e.ShortCode = f.ShortCode /\ e.ID < f.ID) => ~\E r \in urls : r.id = e.ID

\* a short code was handed out again after its record was deactivated
C14_Witness ==
    \E p \in Procs, q \in Procs :
        \E e \in ret[p].url, f \in ret[q].url :
            /\ p # q /\ Shortened(p, e) /\ Shortened(q, f)
            /\ e.ShortCode = f.ShortCode
            /\ e.ID < f.ID
            /\ \E r \in urls : r.id = f.ID

\* caller q holds the record e a ResolveShortCode of code c returned
Resolved(q, c, e) ==
    /\ pc[q] = "done" /\ req[q].op = "ResolveShortCode" /\ req[q].shortCode = c
    /\ e \in ret[q].url

\* C15: a successful ResolveShortCode returns the record as stored right
\* after its own increment; the access count it returns is above the one
\* every earlier resolve of the record returned, and the N calls of a burst
\* of overlapping calls that starts at count v return counts in v+1 .. v+N.
C15_ResolvesLinearized ==
    [][\A p \in Procs :
          (Answered(p, "ResolveShortCode") /\ ret'[p].err = NoErr) =>
              LET c == req[p].shortCode
              IN \E r \in urls : \E r2 \in urls' :
                      /\ r.short_code = c
                      /\ r2 = [r EXCEPT !.access_count = @ + 1, !.updated_at = r2.updated_at]
                      /\ ret'[p].url = {toEntity(r2)}
                      /\ \A q \in Procs \ {p} : \A e \in ret[q].url :
                            (Resolved(q, c, e) /\ e.ID = r.id) =>
                                e.AccessCount < r2.access_count
                      /\ (Started(resolves, c) /\ Burst(resolves, c).ok) =>
                            r2.access_count \in
                                (Burst(resolves, c).base + 1) ..
                                (Burst(resolves, c).base + Burst(resolves, c).n)]_vars

\* the calls of a burst of overlapping resolves returned v+1 and v+2
C15_Witness ==
    \E b \in resolves : \E p \in Procs, q \in Procs :
        \E e \in ret[p].url, f \in ret[q].url :
            /\ b.ok /\ b.n >= 2 /\ ~ResolvePending(b.code)
            /\ Resolved(p, b.code, e) /\ Resolved(q, b.code, f)
            /\ e.AccessCount = b.base + 1
            /\ f.AccessCount = b.base + 2

\* C16: a stored record keeps its id, short_code and created_at in every
\* step, and stays stored in every step that is not the answer of a
\* DeactivateURL of its code; only original_url and access_count change.
C16_IdentityStable ==
    [][\A r \in urls :
          /\ \A r2 \in urls' :
                (r2.id = r.id \/ r2.short_code = r.short_code) =>
                    /\ r2.id = r.id
                    /\ r2.short_code = r.short_code
                    /\ r2.created_at = r.created_at
          /\ (\A r2 \in urls' : r2.id # r.id) =>
                \E p \in Procs :
                    Answered(p, "DeactivateURL") /\ req[p].shortCode = r.short_code]_vars

\* a record that was resolved and modified is stored under its first id
C16_Witness ==
    \E r \in urls : \E p \in Procs, q \in Procs :
        /\ pc[p] = "done" /\ req[p].op = "ModifyURL" /\ ret[p].err = NoErr
        /\ req[p].shortCode = r.short_code
        /\ pc[q] = "done" /\ req[q].op = "ResolveShortCode" /\ ret[q].err = NoErr
        /\ req[q].shortCode = r.short_code
        /\ r.access_count > 0
        /\ r.original_url = req[p].originalURL
        /\ r.created_at < now - 1

\* C18: when the driver reports more than one affected row, Remove returns
\* an error that is not ErrURLNotFound.
C18_ManyRowsIsFatal ==
    \A p \in Procs :
        (/\ pc[p] = "done" /\ req[p].op = "Remove"
         /\ loc[p].execErr = NoErr /\ loc[p].affErr = NoErr
         /\ loc[p].rowsAffected > 1) =>
            /\ ret[p].err # NoErr
            /\ ~errorsIs(ret[p].err, ErrURLNotFound)

\* C19: GetURLStats never changes the store: whether the short code is
\* stored or not, and whatever the call answers, the table holds the same
\* rows with the same columns (access_count among them) after the call as
\* before, no id is consumed, and a successful call returns exactly the
\* stored row of that short code.
C19_StatsReadOnly ==
    [][\A p \in Procs :
          Answered(p, "GetURLStats") =>
              /\ urls' = urls
              /\ nextId' = nextId
              /\ ret'[p].err = NoErr =>
                    \E r \in urls :
                        /\ r.short_code = req[p].shortCode
                        /\ ret'[p].url = {toEntity(r)}]_vars

\* a GetURLStats call has returned a record that had been accessed before
C19_Witness ==
    \E p \in Procs :
        /\ pc[p] = "done"
        /\ req[p].op = "GetURLStats"
        /\ ret[p].err = NoErr
        /\ \E e \in ret[p].url : e.AccessCount > 0
        /\ \E r \in urls : ret[p].url = {toEntity(r)}

\* the operations of the use case that only delegate to the repository
DelegatingOps == {"ResolveShortCode", "ModifyURL", "DeactivateURL", "GetURLStats"}

\* C20: ResolveShortCode, ModifyURL, DeactivateURL and GetURLStats each make
\* exactly one repository call per invocation and answer in the same step,
\* and the answer is the repository's in kind: its record when it returned
\* none of an error, no record and an error that wraps the repository's whole
\* chain otherwise, so ErrURLNotFound stays ErrURLNotFound and any other
\* cause stays the cause.
C20_Delegation ==
    [][\A p \in Procs : \A op \in DelegatingOps :
          Answered(p, op) =>
              /\ now' = now + 1
              /\ loc[p] = NoLoc
              /\ LET g == loc'[p]
                     out == ret'[p]
                 IN /\ g.err = NoErr => (out.err = NoErr /\ out.url = g.url)
                    /\ g.err # NoErr =>
                          /\ out.url = {}
                          /\ \A k \in 1..Len(g.err) : errorsIs(out.err, g.err[k])
                          /\ Cause(out.err) = Cause(g.err)
                          /\ errorsIs(out.err, ErrURLNotFound) <=>
                                errorsIs(g.err, ErrURLNotFound)]_vars

\* one delegating call has passed a record through and another one the
\* repository's ErrURLNotFound
C20_Witness ==
    \E p, q \in Procs :
        /\ pc[p] = "done" /\ req[p].op \in DelegatingOps
        /\ loc[p].err = NoErr /\ loc[p].url # {} /\ ret[p].url = loc[p].url
        /\ pc[q] = "done" /\ req[q].op \in DelegatingOps
        /\ errorsIs(loc[q].err, ErrURLNotFound) /\ errorsIs(ret[q].err, ErrURLNotFound)

C22_GenerationErrorAborts ==
    [][\A p \in Procs :
          (/\ pc[p] = "ShortenURL" /\ pc'[p] # "ShortenURL"
           /\ loc[p].i < uc.maxRetries
           /\ \E g \in gonanoidNew(loc[p].shortCodeLength) : g.err # NoErr) =>
              /\ pc'[p] = "done"
              /\ ret'[p].url = {}
              /\ \E g \in gonanoidNew(loc[p].shortCodeLength) :
                    /\ g.err # NoErr
                    /\ \A k \in 1..Len(g.err) : errorsIs(ret'[p].err, g.err[k])
              /\ attempts'[p] = <<>>
              /\ loc'[p].shortCode = NoCode
              /\ urls' = urls /\ nextId' = nextId /\ now' = now]_vars

\* a ShortenURL of a use case with short code length -1 has failed on the
\* generator, on a table that holds a record
C22_Witness ==
    \E p \in Procs :
        /\ pc[p] = "done" /\ req[p].op = "ShortenURL"
        /\ uc.shortCodeLength = -1
        /\ errorsIs(ret[p].err, ErrNegativeLength)
        /\ ret[p].url = {}
        /\ attempts[p] = <<>>
        /\ urls # {}

\* C23: the status a handler writes is a function of what happened: a
\* request of shortenURL or modifyURL whose body is absent, is not a JSON
\* object or carries no valid URL is answered 400 in the step that receives
\* it, without a use-case call; every other request calls the use case, and
\* an error of the use case gives 404 when it is ErrURLNotFound (bare or
\* wrapped) from ResolveShortCode, ModifyURL, DeactivateURL or GetURLStats
\* and 500 otherwise, ErrMaxRetriesExceeded of ShortenURL included; a
\* successful call gives a 2xx status.
C23_StatusByOutcome ==
    [][\A p \in Procs :
          /\ (pc[p] = "idle" /\ pc'[p] # "idle") =>
                LET h == req'[p].op
                    b == req'[p].body
                IN IF h \in {"shortenURL", "modifyURL"}
                      /\ (b.json # "object" \/ b.original_url \notin URLs)
                   THEN pc'[p] = "done" /\ ret'[p].status = 400 /\ loc'[p] = NoLoc
                   ELSE pc'[p] = UseCaseOf(h) /\ ret'[p] = NoRet
          /\ (pc[p] \notin {"idle", "done"} /\ pc'[p] = "done") =>
                LET err == loc'[p].err
                IN ret'[p].status =
                     IF err = NoErr
                     THEN (CASE req[p].op = "shortenURL" -> 201
                             [] req[p].op = "deactivateURL" -> 204
                             [] OTHER -> 200)
                     ELSE IF req[p].op # "shortenURL" /\ errorsIs(err, ErrURLNotFound)
                     THEN 404
                     ELSE 500]_vars

\* a modifyURL request with a valid body has been answered 404 for a
\* wrapped ErrURLNotFound of the use case
C23_Witness ==
    \E p \in Procs :
        /\ pc[p] = "done" /\ req[p].op = "modifyURL"
        /\ req[p].originalURL \in URLs
        /\ Len(loc[p].err) > 1 /\ errorsIs(loc[p].err, ErrURLNotFound)
        /\ ret[p].status = 404

\* C24: once a DeactivateURL of short code c has succeeded and c is not
\* stored, a Save of candidate c that the storage answers succeeds: it adds
\* one record with a new id, access_count 0 and the original URL of the
\* call, created at the time of the call, and returns that record.
C24_CodeReusableAfterDelete ==
    [][\A p \in Procs, q \in Procs :
          (/\ pc[q] = "done" /\ req[q].op = "DeactivateURL" /\ ret[q].err = NoErr
           /\ ~HasRow(urls, req[q].shortCode)
           /\ pc[p] = "Save" /\ pc'[p] # "Save"
           /\ loc[p].shortCode = req[q].shortCode
           /\ ~errorsIs(ret'[p].err, ErrBadConn)) =>
              /\ pc'[p] = "done"
              /\ ret'[p].err = NoErr
              /\ \E r \in urls' :
                    /\ urls' = urls \cup {r}
                    /\ r.short_code = loc[p].shortCode
                    /\ r.original_url = req[p].originalURL
                    /\ r.access_count = 0
                    /\ r.id = nextId
                    /\ r.created_at = now /\ r.updated_at = now
                    /\ ret'[p].url = {toEntity(r)}]_vars

\* the code of a record stored before, deleted in this run, has been given
\* to a new record with another URL
C24_Witness ==
    \E p \in Procs, q \in Procs :
        /\ pc[q] = "done" /\ req[q].op = "DeactivateURL" /\ ret[q].err = NoErr
        /\ pc[p] = "done" /\ req[p].op = "ShortenURL" /\ ret[p].err = NoErr
        /\ \E e \in ret[p].url :
              /\ e.ShortCode = req[q].shortCode
              /\ e.ID > 1 /\ e.AccessCount = 0 /\ e.CreatedAt > 0
              /\ e.OriginalURL = req[p].originalURL
              /\ \E r0 \in UNION StoredBefore : e.OriginalURL # r0.original_url

\* the root of the error that the Save call ending in this step answered
SaveCause(p) == attempts'[p][Len(attempts'[p])].cause

ResolvedNow(c) ==
    Cardinality({p \in Procs : /\ Answered(p, "ResolveShortCode")
                               /\ req[p].shortCode = c
                               /\ ret'[p].err = NoErr})

\* C26: a record is created with access_count 0, and every step adds to the
\* access_count of a stored record exactly the number of ResolveShortCode
\* calls on it that succeed in the step, 1 or 0: the count never decreases
\* and is at all times the count at the start plus the number of successful
\* resolves of the record; ShortenURL, ModifyURL, GetURLStats, DeactivateURL
\* of another code and every failed call leave it as it is.
C26_CountIsResolves ==
    [][/\ \A r2 \in urls' :
             (\A r \in urls : r.id # r2.id) => r2.access_count = 0
       /\ \A r \in urls : \A r2 \in urls' :
             r.id = r2.id =>
                 /\ r2.access_count = r.access_count + ResolvedNow(r.short_code)
                 /\ r2.access_count >= r.access_count]_vars

\* a record has been resolved twice and modified never, and counts 2
C26_Witness ==
    \E r \in urls :
        /\ r.access_count = 2
        /\ \A p \in Procs :
              /\ pc[p] = "done" /\ req[p].op = "ResolveShortCode"
              /\ req[p].shortCode = r.short_code
              /\ ret[p].err = NoErr
        /\ \E p \in Procs : ret[p].url = {toEntity(r)}

\* the Save calls of an invocation that returned a record
Successes(log) == Cardinality({k \in 1..Len(log) : log[k].cause = NoCause})

\* C27: a step of a ShortenURL invocation changes and removes no record; it
\* adds a record only when it is the step in which the invocation returns
\* success, and then exactly one: the record with the candidate as short
\* code and the URL of the call, which is the record returned.  A step that
\* ends the invocation with ErrMaxRetriesExceeded or another error, and a
\* step that goes on, adds none; so an invocation adds one record if it
\* succeeds and none if it fails.
C27_OneRecordIffSuccess ==
    [][\A p \in Procs :
          (pc[p] \in {"ShortenURL", "Save"} /\ pc'[p] # pc[p]) =>
              LET added == urls' \ urls
              IN /\ urls \subseteq urls'
                 /\ IF pc'[p] = "done" /\ ret'[p].err = NoErr
                    THEN /\ Cardinality(added) = 1
                         /\ ret'[p].url = {toEntity(r) : r \in added}
                         /\ \A r \in added : /\ r.short_code = loc[p].shortCode
                                             /\ r.original_url = req[p].originalURL
                         /\ Successes(attempts'[p]) = 1
                    ELSE /\ added = {}
                         /\ ret'[p].url = {}
                         /\ Successes(attempts'[p]) = 0]_vars

\* one ShortenURL has added the record it returned, another has failed on
\* its Save call, and the table holds one record for every id drawn
C27_Witness ==
    \E p \in Procs, q \in Procs :
        /\ pc[p] = "done" /\ req[p].op = "ShortenURL" /\ ret[p].err = NoErr
        /\ \E r \in urls : ret[p].url = {toEntity(r)} /\ r.created_at > 0
        /\ pc[q] = "done" /\ req[q].op = "ShortenURL" /\ ret[q].err # NoErr
        /\ attempts[q] # <<>>
        /\ Cardinality(urls) = nextId - 1

\* C28: with a retry budget of zero or less, ShortenURL ends in its first
\* step with ErrMaxRetriesExceeded and no record: no candidate is generated,
\* no Save call is made, and the table, the id sequence and the database
\* clock are as before.
C28_NoBudgetNoAttempt ==
    [][\A p \in Procs :
          (pc[p] = "ShortenURL" /\ pc'[p] # "ShortenURL" /\ uc.maxRetries <= 0) =>
              /\ pc'[p] = "done"
              /\ errorsIs(ret'[p].err, ErrMaxRetriesExceeded)
              /\ ret'[p].url = {}
              /\ loc'[p].shortCode = NoCode
              /\ attempts'[p] = <<>>
              /\ urls' = urls /\ nextId' = nextId /\ now' = now]_vars

\* a ShortenURL of a use case built with WithMaxRetries(0) has returned
\* ErrMaxRetriesExceeded, on a table that holds a record
C28_Witness ==
    \E p \in Procs :
        /\ uc = WithMaxRetries(0, defaultURLUseCase)
        /\ pc[p] = "done" /\ req[p].op = "ShortenURL"
        /\ Cause(ret[p].err) = ErrMaxRetriesExceeded
        /\ attempts[p] = <<>>
        /\ loc[p].shortCode = NoCode
        /\ urls # {}

\* C29: when a ModifyURL and a ResolveShortCode on the same stored short
\* code are the two calls of a run and both have returned success, in
\* whatever order their statements ran, the record has the URL of the
\* ModifyURL call and an access_count one above the count at the start of
\* the ResolveShortCode call; the ModifyURL call returned the count as it was
\* before or after the increment, and the ResolveShortCode call the count
\* after it.
C29_ModifyAndResolveBothKept ==
    \A p \in Procs, q \in Procs :
        (/\ pc[p] = "done" /\ req[p].op = "ModifyURL" /\ ret[p].err = NoErr
         /\ pc[q] = "done" /\ req[q].op = "ResolveShortCode" /\ ret[q].err = NoErr
         /\ req[p].shortCode = req[q].shortCode
         /\ calls.ops = MaxCalls - 2) =>
            LET c == req[q].shortCode
                v == Burst(resolves, c).base
            IN /\ Started(resolves, c)
               /\ \E r \in urls :
                     /\ r.short_code = c
                     /\ r.original_url = req[p].originalURL
                     /\ r.access_count = v + 1
               /\ \A e \in ret[p].url : e.AccessCount \in {v, v + 1}
               /\ \A f \in ret[q].url : f.AccessCount = v + 1

\* the statement of the ModifyURL call ran while the ResolveShortCode call
\* was pending: it returned the count before the increment and changed the
\* record after the ResolveShortCode call had started, and the
\* ResolveShortCode call returned the new URL
C29_Witness ==
    \E p \in Procs, q \in Procs :
        /\ pc[p] = "done" /\ req[p].op = "ModifyURL" /\ ret[p].err = NoErr
        /\ pc[q] = "done" /\ req[q].op = "ResolveShortCode" /\ ret[q].err = NoErr
        /\ req[p].shortCode = req[q].shortCode
        /\ calls.ops = MaxCalls - 2
        /\ Started(resolves, req[q].shortCode)
        /\ ~Burst(resolves, req[q].shortCode).ok
        /\ \E e \in ret[p].url, f \in ret[q].url :
              /\ e.AccessCount = Burst(resolves, req[q].shortCode).base
              /\ f.AccessCount = e.AccessCount + 1
              /\ f.OriginalURL = req[p].originalURL
              /\ \E r0 \in UNION StoredBefore : f.OriginalURL # r0.original_url

\* the DeactivateURL calls on c that have their answer and have not returned
Deactivated(c) ==
    {p \in Procs : pc[p] = "done" /\ req[p].op = "DeactivateURL" /\ req[p].shortCode = c}

\* C30: when two or more overlapping DeactivateURL calls on the code of the
\* record stored before the run are all the calls the run has made, and all
\* have their answer, at most one of them returned nil, every other one
\* returned ErrURLNotFound or the error of a broken connection, and the
\* record is absent exactly if one returned nil; when the storage answered
\* them all, exactly one returned nil and every other ErrURLNotFound.
C30_OneDeactivationWins ==
    \A c \in ArgCodes :
        LET D == Deactivated(c)
            ok == {p \in D : ret[p].err = NoErr}
            nf == {p \in D : errorsIs(ret[p].err, ErrURLNotFound)}
            bad == {p \in D : errorsIs(ret[p].err, ErrBadConn)}
        IN (/\ Cardinality(D) >= 2
            /\ \A p \in D, q \in D : p # q => (p \in req[q].overlaps \/ q \in req[p].overlaps)
            /\ calls.ops = MaxCalls - Cardinality(D)
            /\ nextId = 2
            /\ \E r0 \in UNION StoredBefore : r0.short_code = c) =>
               /\ D = ok \cup nf \cup bad
               /\ Cardinality(ok) <= 1
               /\ HasRow(urls, c) <=> ok = {}
               /\ bad = {} => (Cardinality(ok) = 1 /\ nf = D \ ok /\ ~HasRow(urls, c))

\* of two DeactivateURL calls on the stored record, the second made while the
\* first was pending, one returned nil and the other ErrURLNotFound
C30_Witness ==
    \E p \in Procs, q \in Procs :
        /\ pc[p] = "done" /\ req[p].op = "DeactivateURL"
        /\ pc[q] = "done" /\ req[q].op = "DeactivateURL"
        /\ req[p].shortCode = req[q].shortCode
        /\ p \in req[q].overlaps
        /\ ret[q].err = NoErr
        /\ errorsIs(ret[p].err, ErrURLNotFound)
        /\ ~HasRow(urls, req[p].shortCode)

(* ======================= properties of ShortenURL ====================== *)

\* C17: once the ctx of a ShortenURL invocation that has made a Save call is
\* cancelled, the invocation starts no further Save call.
C17_NoSaveAfterCancel ==
    [][\A p \in Procs :
          (req[p].op = "ShortenURL" /\ req[p].ctxDone /\ Len(attempts[p]) >= 1) =>
              ~(pc[p] = "ShortenURL" /\ pc'[p] = "Save")]_vars


InShortenURL(p) == req[p].op = "ShortenURL"
Returned(p) == InShortenURL(p) /\ pc[p] = "done"
ConflictsUpTo(p, n) == \A k \in 1..n : attempts[p][k].cause = ErrShortCodeExists

\* C4: when every Save reports a conflict, ShortenURL returns
\* ErrMaxRetriesExceeded and no record after exactly maxRetries Save calls
\* (5 with the defaults; none when maxRetries is negative), and an
\* invocation never makes more Save calls.
C4_RetryExhaustion ==
    \A p \in Procs :
        LET budget == IF uc.maxRetries < 0 THEN 0 ELSE uc.maxRetries
        IN /\ InShortenURL(p) => Len(attempts[p]) <= budget
           /\ (Returned(p) /\ ConflictsUpTo(p, Len(attempts[p]))
                 /\ ~errorsIs(ret[p].err, ErrNegativeLength)) =>
                  /\ errorsIs(ret[p].err, ErrMaxRetriesExceeded)
                  /\ ret[p].url = {}
                  /\ Len(attempts[p]) = budget
                  /\ (uc = defaultURLUseCase => Len(attempts[p]) = 5)

C4_Witness ==
    \E p \in Procs :
        /\ Returned(p)
        /\ uc = defaultURLUseCase
        /\ Len(attempts[p]) = 5
        /\ ConflictsUpTo(p, 5)
        /\ errorsIs(ret[p].err, ErrMaxRetriesExceeded)

\* C5: when Save reports a conflict k times (k below the budget) and then
\* succeeds, ShortenURL returns that Save's record and no error, and the
\* successful Save call is its last one, the (k+1)-th.
C5_ConflictRetry ==
    \A p \in Procs :
        (InShortenURL(p) /\ \E j \in 1..Len(attempts[p]) : attempts[p][j].cause = NoCause) =>
            LET n == Len(attempts[p])
            IN /\ pc[p] = "done"
               /\ attempts[p][n].cause = NoCause
               /\ ConflictsUpTo(p, n - 1)
               /\ n <= uc.maxRetries
               /\ ret[p].err = NoErr
               /\ ret[p].url # {}
               /\ ret[p].url = loc[p].url
               /\ \A e \in ret[p].url : e.ShortCode = loc[p].shortCode

C5_Witness ==
    \E p \in Procs :
        /\ Returned(p)
        /\ uc = defaultURLUseCase
        /\ Len(attempts[p]) = 5
        /\ ConflictsUpTo(p, 4)
        /\ ret[p].err = NoErr
        /\ ret[p].url # {}

\* C6: a Save error that is not a conflict ends the invocation at once: it
\* is the last Save call, no record is returned, and the returned error
\* wraps that very error and is not ErrMaxRetriesExceeded.
C6_OtherErrorAborts ==
    \A p \in Procs :
        \A j \in 1..Len(attempts[p]) :
            (InShortenURL(p) /\ attempts[p][j].cause \notin {NoCause, ErrShortCodeExists}) =>
                /\ j = Len(attempts[p])
                /\ pc[p] = "done"
                /\ ret[p].url = {}
                /\ Len(ret[p].err) > 1
                /\ SubSeq(ret[p].err, 2, Len(ret[p].err)) = loc[p].err
                /\ errorsIs(ret[p].err, attempts[p][j].cause)
                /\ ~errorsIs(ret[p].err, ErrMaxRetriesExceeded)

C6_Witness ==
    \E p \in Procs :
        /\ Returned(p)
        /\ Len(attempts[p]) >= 3
        /\ ConflictsUpTo(p, Len(attempts[p]) - 1)
        /\ attempts[p][Len(attempts[p])].cause = errUnknown
        /\ errorsIs(ret[p].err, errUnknown)

\* C7: the candidate of the j-th Save call of an invocation has
\* shortCodeLength + (j - 1) characters.
C7_LengthGrowsByOne ==
    \A p \in Procs :
        /\ \A j \in 1..Len(attempts[p]) :
              attempts[p][j].length = uc.shortCodeLength + (j - 1)
        /\ pc[p] = "Save" => StrLen(loc[p].shortCode) = uc.shortCodeLength + Len(attempts[p])

C7_Witness ==
    \E p \in Procs :
        /\ uc = defaultURLUseCase
        /\ Len(attempts[p]) = 5
        /\ attempts[p][1].length = 7
        /\ attempts[p][5].length = 11

\* C8: every invocation's first candidate has the configured length,
\* whatever other invocations did, and no step changes the configuration.
C8_NoCrossCallState ==
    [][/\ uc' = uc
       /\ \A p \in Procs :
            (pc[p] # "Save" /\ pc'[p] = "Save" /\ attempts[p] = <<>>) =>
                StrLen(loc'[p].shortCode) = uc.shortCodeLength]_vars

\* a first candidate is out while another invocation is past a conflict
C8_Witness ==
    \E p \in Procs, q \in Procs :
        /\ p # q
        /\ pc[p] = "Save"
        /\ attempts[p] = <<>>
        /\ StrLen(loc[p].shortCode) = uc.shortCodeLength
        /\ InShortenURL(q)
        /\ Len(attempts[q]) >= 1
        /\ loc[q].shortCodeLength > uc.shortCodeLength

\* C9: the error ShortenURL returns never is or wraps ErrShortCodeExists.
C9_ConflictNeverEscapes ==
    \A p \in Procs : InShortenURL(p) => ~errorsIs(ret[p].err, ErrShortCodeExists)

C9_Witness ==
    \E p \in Procs :
        /\ Returned(p)
        /\ uc.maxRetries = 1
        /\ Len(attempts[p]) = 1
        /\ attempts[p][1].cause = ErrShortCodeExists
        /\ ret[p].err # NoErr

====
